---- MODULE Spec2Model ----
(***************************************************************************)
(* The real-time frame pipeline of the VR display streamer:                *)
(*   ScreenCapture.capture_screen  (capture thread)                        *)
(*   SensorReader.sensor_reader    (sensor-ingest thread)                  *)
(*   SensorFusion                  (drain on the main thread, snapshot)    *)
(*   VRProcessor                   (remap-map cache)                       *)
(*   VRDisplayApp                  (render thread, tk main thread)         *)
(* Angles are fixed-point integers in hundredths of a degree.              *)
(***************************************************************************)
EXTENDS Integers, Sequences, FiniteSets, TLC

\* ------------------------------------------------------------------ bounds
\* frames the capture loop grabs in one run
MaxFrames == 3
\* lines the sensor transport delivers in one run of the whole program
MaxLines == 1
\* lines the transport delivers in the flood scenario (ingest and fusion only)
MaxFloodLines == 12
\* lines the transport delivers in the sensor-stream specification
MaxSensorLines == 2
\* the target image of the map computations, in pixels (a small stand-in for
\* CAPTURE_WIDTH // 2 by CAPTURE_HEIGHT)
GridWidth == 4
GridHeight == 2

\* -------------------------------------------------------- program constants
\* config.FRAME_BUFFER_SIZE
FRAME_BUFFER_SIZE == 2
\* queue.Queue(maxsize=10) of VRDisplayApp.sensor_queue
SENSOR_QUEUE_SIZE == 10
\* fixed-point scale: one degree is SCALE units
SCALE == 10 * 10
\* config.ORIENTATION_THRESHOLD = 0.5 degrees
ORIENTATION_THRESHOLD == SCALE \div 2
\* config.SENSOR_FILTER_ALPHA = 0.05, as a percentage
SENSOR_FILTER_ALPHA == 5
\* the calibration offsets of render_frame_thread: yaw + 100, pitch + 12
YAW_OFFSET == 100 * SCALE
PITCH_OFFSET == 12 * SCALE

\* ------------------------------------------------------------ sensor lines
\* A line is a sequence of one-character strings.
Digits == {"0", "1", "2", "3", "4", "5", "6", "7", "8", "9"}

DigitVal(c) ==
    CASE c = "0" -> 0 [] c = "1" -> 1 [] c = "2" -> 2 [] c = "3" -> 3
      [] c = "4" -> 4 [] c = "5" -> 5 [] c = "6" -> 6 [] c = "7" -> 7
      [] c = "8" -> 8 [] c = "9" -> 9

\* the character class [-\d.] of SensorReader.pattern
NumChars == Digits \cup {"-", "."}

\* \s
SpaceChars == {" "}

\* the literals of SensorReader.pattern
LitYaw == <<"Y", "a", "w", ":">>
LitPitch == <<",">>
LitPitchLabel == <<"P", "i", "t", "c", "h", ":">>
LitRoll == <<",">>
LitRollLabel == <<"R", "o", "l", "l", ":">>

\* the literal lit stands in line at position i
HasLit(line, i, lit) ==
    /\ i + Len(lit) - 1 <= Len(line)
    /\ \A k \in 1..Len(lit) : line[i + k - 1] = lit[k]

\* the first position >= i whose character is not in cls (Len+1 if none): the
\* end of a greedy cls* starting at i
RECURSIVE SkipClass(_, _, _)
SkipClass(line, i, cls) ==
    IF i <= Len(line) /\ line[i] \in cls THEN SkipClass(line, i + 1, cls) ELSE i

\* \s*([-\d.]+) from position i: <<start, end>> of the group (end exclusive),
\* or <<>> when the group would be empty.  The classes \s and [-\d.] are
\* disjoint and the group is followed by a literal outside [-\d.], so the
\* greedy match is the only one.
NumGroup(line, i) ==
    LET s == SkipClass(line, i, SpaceChars)
        e == SkipClass(line, s, NumChars)
    IN  IF e > s THEN <<s, e>> ELSE <<>>

\* the pattern matched with "Yaw:" at position p: the three groups' texts, or <<>>
MatchAt(line, p) ==
    IF ~HasLit(line, p, LitYaw) THEN <<>>
    ELSE LET g1 == NumGroup(line, p + Len(LitYaw))
         IN  IF g1 = <<>> \/ ~HasLit(line, g1[2], LitPitch) THEN <<>>
             ELSE LET q == SkipClass(line, g1[2] + Len(LitPitch), SpaceChars)
                  IN  IF ~HasLit(line, q, LitPitchLabel) THEN <<>>
                      ELSE LET g2 == NumGroup(line, q + Len(LitPitchLabel))
                           IN  IF g2 = <<>> \/ ~HasLit(line, g2[2], LitRoll) THEN <<>>
                               ELSE LET r == SkipClass(line, g2[2] + Len(LitRoll), SpaceChars)
                                    IN  IF ~HasLit(line, r, LitRollLabel) THEN <<>>
                                        ELSE LET g3 == NumGroup(line, r + Len(LitRollLabel))
                                             IN  IF g3 = <<>> THEN <<>>
                                                 ELSE << SubSeq(line, g1[1], g1[2] - 1),
                                                         SubSeq(line, g2[1], g2[2] - 1),
                                                         SubSeq(line, g3[1], g3[2] - 1) >>

\* re.search(pattern, line): the groups of the leftmost match, or <<>>
RECURSIVE SearchFrom(_, _)
SearchFrom(line, p) ==
    IF p > Len(line) THEN <<>>
    ELSE IF MatchAt(line, p) # <<>> THEN MatchAt(line, p)
    ELSE SearchFrom(line, p + 1)

ReSearch(line) == SearchFrom(line, 1)

\* the value of a run of digits
RECURSIVE DigitsVal(_)
DigitsVal(ds) ==
    IF ds = <<>> THEN 0
    ELSE 10 * DigitsVal(SubSeq(ds, 1, Len(ds) - 1)) + DigitVal(ds[Len(ds)])

\* float() accepts a text over [-\d.] iff it is an optional leading "-", then
\* digits with at most one ".", with at least one digit
FloatOk(t) ==
    LET body == IF t # <<>> /\ t[1] = "-" THEN Tail(t) ELSE t
        dots == {k \in 1..Len(body) : body[k] = "."}
    IN  /\ \A k \in 1..Len(body) : body[k] \in Digits \cup {"."}
        /\ Cardinality(dots) <= 1
        /\ \E k \in 1..Len(body) : body[k] \in Digits

\* float() of an accepted text, in hundredths (digits after the second decimal
\* are cut)
FloatVal(t) ==
    LET neg == t[1] = "-"
        body == IF neg THEN Tail(t) ELSE t
        dot == SkipClass(body, 1, Digits)
        ip == SubSeq(body, 1, dot - 1)
        fr == SubSeq(body, dot + 1, Len(body))
        f1 == IF Len(fr) >= 1 THEN DigitVal(fr[1]) ELSE 0
        f2 == IF Len(fr) >= 2 THEN DigitVal(fr[2]) ELSE 0
        mag == SCALE * DigitsVal(ip) + 10 * f1 + f2
    IN  IF neg THEN 0 - mag ELSE mag

\* What one pass of the line handling of sensor_reader (lines 35-41) does with
\* a line: "nomatch" (no sample), "sample" with the three values, or "raise"
\* (float() raised ValueError on a matched group).
ParseLine(line) ==
    LET g == ReSearch(line)
    IN  IF g = <<>> THEN [kind |-> "nomatch", yaw |-> 0, pitch |-> 0, roll |-> 0]
        ELSE IF ~(FloatOk(g[1]) /\ FloatOk(g[2]) /\ FloatOk(g[3]))
             THEN [kind |-> "raise", yaw |-> 0, pitch |-> 0, roll |-> 0]
        ELSE [kind |-> "sample", yaw |-> FloatVal(g[1]), pitch |-> FloatVal(g[2]),
              roll |-> FloatVal(g[3])]

\* "noise Yaw: -12.50, Pitch: 3.0, Roll: 0.00 trailing"
LineGoodA ==
    << "n", "o", "i", "s", "e", " ", "Y", "a", "w", ":", " ", "-", "1", "2", ".", "5", "0",
       ",", " ", "P", "i", "t", "c", "h", ":", " ", "3", ".", "0", ",", " ",
       "R", "o", "l", "l", ":", " ", "0", ".", "0", "0", " ", "t", "r", "a", "i", "l" >>

\* "Yaw:7.5,Pitch:-2,Roll:10"
LineGoodB ==
    << "Y", "a", "w", ":", "7", ".", "5", ",", "P", "i", "t", "c", "h", ":", "-", "2", ",",
       "R", "o", "l", "l", ":", "1", "0" >>

\* "garbage"
LineGarbage == << "g", "a", "r", "b", "a", "g", "e" >>

\* "" (a blank line after strip())
LineBlank == << >>

\* "Yaw: 1.0, Pitch: 2" (a partial line)
LinePartial ==
    << "Y", "a", "w", ":", " ", "1", ".", "0", ",", " ", "P", "i", "t", "c", "h", ":", " ", "2" >>

\* "Yaw: 1.2.3, Pitch: 0, Roll: 0" (matches the pattern; not a number)
LineBadNumber ==
    << "Y", "a", "w", ":", " ", "1", ".", "2", ".", "3", ",", " ",
       "P", "i", "t", "c", "h", ":", " ", "0", ",", " ", "R", "o", "l", "l", ":", " ", "0" >>

\* "Yaw: -, Pitch: 0, Roll: 0" (a sign with no digits)
LineBareSign ==
    << "Y", "a", "w", ":", " ", "-", ",", " ",
       "P", "i", "t", "c", "h", ":", " ", "0", ",", " ", "R", "o", "l", "l", ":", " ", "0" >>

\* the lines the transport may deliver
SensorLines ==
    {LineGoodA, LineGoodB, LineGarbage, LineBlank, LinePartial, LineBadNumber, LineBareSign}

\* the lines of the flood scenario: well-formed samples only
FloodLines == {LineGoodA}

\* the line handling's result for each line the transport may deliver
Handled == [line \in SensorLines \cup FloodLines |-> ParseLine(line)]

\* ------------------------------------------------------------------- state
VARIABLES
    \* VRDisplayApp: run flag, the three channels, the canvas, the tk timers,
    \* the main thread's position (m_pc) and its position in the running callback (cb)
    app_running, frame_buffer, render_buffer, sensor_queue, canvas_image,
    fusion_timer, display_timer, m_pc, cb,
    \* ScreenCapture: run flag, the capture thread's position, its local frame,
    \* the number of frames grabbed so far (frames are numbered in grab order)
    cap_running, c_pc, c_frame, captured,
    \* SensorReader: run flag, the thread's position, the serial handle, the
    \* line in hand, the parsed sample in hand, the lines read so far (also the
    \* clock of the timestamps)
    reader_running, s_pc, ser, s_line, s_sample, lines_read,
    \* SensorFusion: run flag, the three filters, the shared slot and its lock,
    \* the filtered triple in hand, every filtered triple computed so far, and
    \* the samples popped so far (oldest first)
    fusion_running, yaw_filter, pitch_filter, roll_filter, sensor_data, data_lock,
    f_filtered, fused, consumed,
    \* render thread: position, the frame popped, the snapshot taken, the
    \* combined frame produced
    r_pc, r_frame, r_snap, r_out,
    \* VRProcessor: the cache, the orientation recorded at the last computation,
    \* and the last two direct calls of compute_distortion_maps (oldest first)
    map_cache, last_orientation, vr_calls,
    \* the last map computation done by both implementations: its parameters,
    \* its orientation and the maps of each
    projection

app_vars == <<app_running, frame_buffer, render_buffer, sensor_queue, canvas_image,
              fusion_timer, display_timer, m_pc, cb>>
cap_vars == <<cap_running, c_pc, c_frame, captured>>
reader_vars == <<reader_running, s_pc, ser, s_line, s_sample, lines_read>>
fusion_vars == <<fusion_running, yaw_filter, pitch_filter, roll_filter, sensor_data,
                 data_lock, f_filtered, fused, consumed>>
render_vars == <<r_pc, r_frame, r_snap, r_out>>
vr_vars == <<map_cache, last_orientation, vr_calls, projection>>
vars == <<app_vars, cap_vars, reader_vars, fusion_vars, render_vars, vr_vars>>

\* SensorFusion.sensor_data at construction
ZeroOrientation == [yaw |-> 0, pitch |-> 0, roll |-> 0]

\* The state when VRDisplayApp.__init__ has built the channels (line 49) and
\* is about to call initialize_components; the fields of the components are
\* the ones their constructors set.
Init ==
    /\ app_running = TRUE
    /\ frame_buffer = <<>>
    /\ render_buffer = <<>>
    /\ sensor_queue = <<>>
    /\ canvas_image = <<>>
    /\ fusion_timer = FALSE
    /\ display_timer = FALSE
    /\ m_pc = "init_components"
    /\ cb = "none"
    /\ cap_running = TRUE
    /\ c_pc = "unstarted"
    /\ c_frame = 0
    /\ captured = 0
    /\ reader_running = TRUE
    /\ s_pc = "unstarted"
    /\ ser = "unopened"
    /\ s_line = <<>>
    /\ s_sample = <<>>
    /\ lines_read = 0
    /\ fusion_running = TRUE
    /\ yaw_filter = <<>>
    /\ pitch_filter = <<>>
    /\ roll_filter = <<>>
    /\ sensor_data = ZeroOrientation
    /\ data_lock = "free"
    /\ f_filtered = <<>>
    /\ fused = {}
    /\ consumed = <<>>
    /\ r_pc = "unstarted"
    /\ r_frame = <<>>
    /\ r_snap = <<>>
    /\ r_out = <<>>
    /\ map_cache = <<>>
    /\ last_orientation = <<>>
    /\ vr_calls = <<>>
    /\ projection = <<>>

\* ------------------------------------------------------------ queue.Queue
\* put_nowait succeeds iff the queue is not full
QueueFull(q, maxsize) == Len(q) >= maxsize

\* ---------------------------------------------------------- capture thread
\* capture_screen, line 53 (loop test) to line 68: grab, resize, overlay
CaptureGrab ==
    /\ c_pc = "loop"
    /\ cap_running
    /\ captured < MaxFrames
    /\ captured' = captured + 1
    /\ c_frame' = captured + 1
    /\ c_pc' = "put"
    /\ UNCHANGED <<cap_running, app_vars, reader_vars, fusion_vars, render_vars, vr_vars>>

\* capture_screen, line 53: the loop test fails and the thread returns
CaptureExit ==
    /\ c_pc = "loop"
    /\ ~cap_running
    /\ c_pc' = "done"
    /\ UNCHANGED <<cap_running, c_frame, captured, app_vars, reader_vars, fusion_vars,
                   render_vars, vr_vars>>

\* capture_screen, lines 71-73: put_nowait, queue.Full caught
CapturePut ==
    /\ c_pc = "put"
    /\ IF QueueFull(frame_buffer, FRAME_BUFFER_SIZE)
       THEN c_pc' = "get" /\ UNCHANGED frame_buffer
       ELSE c_pc' = "loop" /\ frame_buffer' = Append(frame_buffer, c_frame)
    /\ UNCHANGED <<app_running, render_buffer, sensor_queue, canvas_image, fusion_timer,
                   display_timer, m_pc, cb>>
    /\ UNCHANGED <<cap_running, c_frame, captured, reader_vars, fusion_vars, render_vars,
                   vr_vars>>

\* a drop that removes the newest queued frame instead of the oldest
CaptureDropNewest ==
    /\ c_pc = "get"
    /\ IF frame_buffer = <<>>
       THEN c_pc' = "loop" /\ UNCHANGED frame_buffer
       ELSE c_pc' = "put2" /\ frame_buffer' = SubSeq(frame_buffer, 1, Len(frame_buffer) - 1)
    /\ UNCHANGED <<app_running, render_buffer, sensor_queue, canvas_image, fusion_timer,
                   display_timer, m_pc, cb>>
    /\ UNCHANGED <<cap_running, c_frame, captured, reader_vars, fusion_vars, render_vars,
                   vr_vars>>

\* capture_screen, lines 74-78: get_nowait (remove oldest); queue.Empty is
\* caught and passes, which ends the cycle without the second put
CaptureDropOldest ==
    /\ c_pc = "get"
    /\ IF frame_buffer = <<>>
       THEN c_pc' = "loop" /\ UNCHANGED frame_buffer
       ELSE c_pc' = "put2" /\ frame_buffer' = Tail(frame_buffer)
    /\ UNCHANGED <<app_running, render_buffer, sensor_queue, canvas_image, fusion_timer,
                   display_timer, m_pc, cb>>
    /\ UNCHANGED <<cap_running, c_frame, captured, reader_vars, fusion_vars, render_vars,
                   vr_vars>>

\* capture_screen, line 76: the second put_nowait; a queue.Full here is caught
\* by nothing and ends the thread
CapturePutNew ==
    /\ c_pc = "put2"
    /\ IF QueueFull(frame_buffer, FRAME_BUFFER_SIZE)
       THEN c_pc' = "crashed" /\ UNCHANGED frame_buffer
       ELSE c_pc' = "loop" /\ frame_buffer' = Append(frame_buffer, c_frame)
    /\ UNCHANGED <<app_running, render_buffer, sensor_queue, canvas_image, fusion_timer,
                   display_timer, m_pc, cb>>
    /\ UNCHANGED <<cap_running, c_frame, captured, reader_vars, fusion_vars, render_vars,
                   vr_vars>>

CaptureStep ==
    CaptureGrab \/ CaptureExit \/ CapturePut \/ CaptureDropOldest \/ CapturePutNew

\* a finally clause that leaves the port as it is
ReleasedNever(h) == h

\* --------------------------------------------------------- sensor ingest
\* the handle after the finally clause of sensor_reader (lines 59-63): closed
\* if it was opened
Released(h) == IF h = "open" THEN "closed" ELSE h

\* sensor_reader, lines 21-27: open the port, reset its buffers, settle.
\* Opening or resetting may raise; the except and finally clauses then run.
ReaderOpen ==
    /\ s_pc = "open"
    /\ \E outcome \in {"ok", "open_raises", "reset_raises"} :
         CASE outcome = "ok" -> ser' = "open" /\ s_pc' = "loop"
           [] outcome = "open_raises" -> ser' = Released(ser) /\ s_pc' = "done"
           [] outcome = "reset_raises" -> ser' = Released("open") /\ s_pc' = "done"
    /\ UNCHANGED <<reader_running, s_line, s_sample, lines_read, app_vars, cap_vars, fusion_vars,
                   render_vars, vr_vars>>

\* sensor_reader, line 29: the loop test fails; the finally clause closes the port
ReaderExit ==
    /\ s_pc = "loop"
    /\ ~reader_running
    /\ ser' = Released(ser)
    /\ s_pc' = "done"
    /\ UNCHANGED <<reader_running, s_line, s_sample, lines_read, app_vars, cap_vars, fusion_vars,
                   render_vars, vr_vars>>

\* sensor_reader, lines 30 and 55: nothing is waiting; sleep and loop
ReaderIdle ==
    /\ s_pc = "loop"
    /\ reader_running
    /\ UNCHANGED vars

\* sensor_reader, lines 30-31 and 57-63: in_waiting or readline raises (the
\* transport is gone); the except clause logs, the finally clause closes
ReaderFault ==
    /\ s_pc = "loop"
    /\ reader_running
    /\ ser' = Released(ser)
    /\ s_pc' = "done"
    /\ UNCHANGED <<reader_running, s_line, s_sample, lines_read, app_vars, cap_vars, fusion_vars,
                   render_vars, vr_vars>>

\* sensor_reader, lines 30-34: a line is waiting; readline returns one line of
\* `menu` (decoded and stripped)
ReaderRead(menu, limit) ==
    /\ s_pc = "loop"
    /\ reader_running
    /\ lines_read < limit
    /\ lines_read' = lines_read + 1
    /\ \E line \in menu : s_line' = <<line>>
    /\ s_pc' = "handle"
    /\ UNCHANGED <<reader_running, ser, s_sample, app_vars, cap_vars, fusion_vars,
                   render_vars, vr_vars>>

\* sensor_reader, lines 35-41 and 57-63: handle the line in hand.  No match:
\* nothing is queued.  A match: the groups go through float(); a ValueError
\* leaves the loop through the except clause of line 57 and the finally clause
\* closes the port.
ReaderHandle ==
    /\ s_pc = "handle"
    /\ LET p == Handled[s_line[1]]
       IN  CASE p.kind = "nomatch" -> s_pc' = "loop" /\ UNCHANGED <<ser, s_sample>>
             [] p.kind = "raise" ->
                  s_pc' = "done" /\ ser' = Released(ser) /\ UNCHANGED s_sample
             [] p.kind = "sample" ->
                  /\ s_sample' = << [yaw |-> p.yaw, pitch |-> p.pitch, roll |-> p.roll,
                                     timestamp |-> lines_read] >>
                  /\ s_pc' = "put"
                  /\ UNCHANGED ser
    /\ s_line' = <<>>
    /\ UNCHANGED <<reader_running, lines_read, app_vars, cap_vars, fusion_vars,
                   render_vars, vr_vars>>

\* a put that makes room by dropping the oldest queued sample
ReaderPutDropOldest ==
    /\ s_pc = "put"
    /\ sensor_queue' = IF QueueFull(sensor_queue, SENSOR_QUEUE_SIZE)
                       THEN Append(Tail(sensor_queue), s_sample[1])
                       ELSE Append(sensor_queue, s_sample[1])
    /\ s_sample' = <<>>
    /\ s_pc' = "loop"
    /\ UNCHANGED <<app_running, frame_buffer, render_buffer, canvas_image, fusion_timer,
                   display_timer, m_pc, cb>>
    /\ UNCHANGED <<reader_running, ser, s_line, lines_read, cap_vars, fusion_vars,
                   render_vars, vr_vars>>

\* sensor_reader, lines 44-53: put_nowait; queue.Full is caught and passes
ReaderPut ==
    /\ s_pc = "put"
    /\ sensor_queue' = IF QueueFull(sensor_queue, SENSOR_QUEUE_SIZE)
                       THEN sensor_queue
                       ELSE Append(sensor_queue, s_sample[1])
    /\ s_sample' = <<>>
    /\ s_pc' = "loop"
    /\ UNCHANGED <<app_running, frame_buffer, render_buffer, canvas_image, fusion_timer,
                   display_timer, m_pc, cb>>
    /\ UNCHANGED <<reader_running, ser, s_line, lines_read, cap_vars, fusion_vars,
                   render_vars, vr_vars>>

ReaderStep(menu, limit) ==
    ReaderOpen \/ ReaderExit \/ ReaderIdle \/ ReaderFault \/ ReaderRead(menu, limit)
        \/ ReaderHandle \/ ReaderPut

\* ------------------------------------------------------------ SensorFusion
\* LowPassFilter.update: the first call returns the raw value; later calls
\* return alpha*raw + (1-alpha)*previous (floored to the fixed-point grid)
LowPassUpdate(state, raw) ==
    IF state = <<>> THEN raw
    ELSE (SENSOR_FILTER_ALPHA * raw + (100 - SENSOR_FILTER_ALPHA) * state[1]) \div 100

\* an acquire that does not wait for the holder
CanAcquireUnlocked(lock) == TRUE

\* threading.Lock: acquire blocks until the lock is free
CanAcquire(lock) == lock = "free"

\* where the main thread goes when a callback returns: __init__ runs
\* start_process_sensor_loop, then update_display, then returns to mainloop
ReturnFrom(where) ==
    CASE where = "init_fusion" -> [m_pc |-> "init_display", cb |-> "d_check"]
      [] where = "init_display" -> [m_pc |-> "mainloop", cb |-> "none"]
      [] OTHER -> [m_pc |-> "mainloop", cb |-> "none"]

\* a drain loop whose test waits for a sample when the channel is empty
FusionCheckWaits ==
    /\ cb = "f_check"
    /\ sensor_queue # <<>>
    /\ cb' = "f_get"
    /\ UNCHANGED <<app_running, frame_buffer, render_buffer, sensor_queue, canvas_image,
                   fusion_timer, display_timer, m_pc>>
    /\ UNCHANGED <<cap_vars, reader_vars, fusion_vars, render_vars, vr_vars>>

\* process_sensor_data, line 31, and start_process_sensor_loop, lines 77-78:
\* the drain loop's test; on an empty channel the drain returns and the timer
\* is re-armed if the application is running
FusionCheck ==
    /\ cb = "f_check"
    /\ IF sensor_queue = <<>>
       THEN /\ m_pc' = ReturnFrom(m_pc).m_pc
            /\ cb' = ReturnFrom(m_pc).cb
            /\ fusion_timer' = app_running
       ELSE /\ cb' = "f_get"
            /\ UNCHANGED <<m_pc, fusion_timer>>
    /\ UNCHANGED <<app_running, frame_buffer, render_buffer, sensor_queue, canvas_image,
                   display_timer>>
    /\ UNCHANGED <<cap_vars, reader_vars, fusion_vars, render_vars, vr_vars>>

\* a drain step that feeds the pitch sample to the yaw filter and the yaw
\* sample to the pitch filter
FusionGetCrossed ==
    /\ cb = "f_get"
    /\ IF sensor_queue = <<>>
       THEN /\ m_pc' = ReturnFrom(m_pc).m_pc
            /\ cb' = ReturnFrom(m_pc).cb
            /\ fusion_timer' = app_running
            /\ UNCHANGED <<sensor_queue, yaw_filter, pitch_filter, roll_filter,
                           f_filtered, fused, consumed>>
       ELSE LET data == Head(sensor_queue)
                f == [yaw |-> LowPassUpdate(yaw_filter, data.pitch),
                      pitch |-> LowPassUpdate(pitch_filter, data.yaw),
                      roll |-> LowPassUpdate(roll_filter, data.roll)]
            IN  /\ sensor_queue' = Tail(sensor_queue)
                /\ yaw_filter' = <<f.yaw>>
                /\ pitch_filter' = <<f.pitch>>
                /\ roll_filter' = <<f.roll>>
                /\ f_filtered' = <<f>>
                /\ fused' = fused \cup {f}
                /\ consumed' = Append(consumed, data)
                /\ cb' = "f_wyaw"
                /\ UNCHANGED <<m_pc, fusion_timer>>
    /\ UNCHANGED <<app_running, frame_buffer, render_buffer, canvas_image, display_timer>>
    /\ UNCHANGED <<fusion_running, sensor_data, data_lock>>
    /\ UNCHANGED <<cap_vars, reader_vars, render_vars, vr_vars>>

\* process_sensor_data, lines 32-37: pop a sample and run it through the three
\* filters; a queue.Empty is caught at line 46 and the drain returns
FusionGet ==
    /\ cb = "f_get"
    /\ IF sensor_queue = <<>>
       THEN /\ m_pc' = ReturnFrom(m_pc).m_pc
            /\ cb' = ReturnFrom(m_pc).cb
            /\ fusion_timer' = app_running
            /\ UNCHANGED <<sensor_queue, yaw_filter, pitch_filter, roll_filter,
                           f_filtered, fused, consumed>>
       ELSE LET data == Head(sensor_queue)
                f == [yaw |-> LowPassUpdate(yaw_filter, data.yaw),
                      pitch |-> LowPassUpdate(pitch_filter, data.pitch),
                      roll |-> LowPassUpdate(roll_filter, data.roll)]
            IN  /\ sensor_queue' = Tail(sensor_queue)
                /\ yaw_filter' = <<f.yaw>>
                /\ pitch_filter' = <<f.pitch>>
                /\ roll_filter' = <<f.roll>>
                /\ f_filtered' = <<f>>
                /\ fused' = fused \cup {f}
                /\ consumed' = Append(consumed, data)
                /\ cb' = "f_wyaw"
                /\ UNCHANGED <<m_pc, fusion_timer>>
    /\ UNCHANGED <<app_running, frame_buffer, render_buffer, canvas_image, display_timer>>
    /\ UNCHANGED <<fusion_running, sensor_data, data_lock>>
    /\ UNCHANGED <<cap_vars, reader_vars, render_vars, vr_vars>>

\* process_sensor_data, lines 40-41: take the lock, write yaw
FusionWriteYaw ==
    /\ cb = "f_wyaw"
    /\ CanAcquire(data_lock)
    /\ data_lock' = "fusion"
    /\ sensor_data' = [sensor_data EXCEPT !.yaw = f_filtered[1].yaw]
    /\ cb' = "f_wpitch"
    /\ UNCHANGED <<app_running, frame_buffer, render_buffer, sensor_queue, canvas_image,
                   fusion_timer, display_timer, m_pc>>
    /\ UNCHANGED <<fusion_running, yaw_filter, pitch_filter, roll_filter, f_filtered, fused,
                   consumed>>
    /\ UNCHANGED <<cap_vars, reader_vars, render_vars, vr_vars>>

\* process_sensor_data, line 42: write pitch
FusionWritePitch ==
    /\ cb = "f_wpitch"
    /\ sensor_data' = [sensor_data EXCEPT !.pitch = f_filtered[1].pitch]
    /\ cb' = "f_wroll"
    /\ UNCHANGED <<app_running, frame_buffer, render_buffer, sensor_queue, canvas_image,
                   fusion_timer, display_timer, m_pc>>
    /\ UNCHANGED <<fusion_running, yaw_filter, pitch_filter, roll_filter, data_lock,
                   f_filtered, fused, consumed>>
    /\ UNCHANGED <<cap_vars, reader_vars, render_vars, vr_vars>>

\* process_sensor_data, lines 43-45: write roll, release the lock, task_done
FusionWriteRoll ==
    /\ cb = "f_wroll"
    /\ sensor_data' = [sensor_data EXCEPT !.roll = f_filtered[1].roll]
    /\ data_lock' = "free"
    /\ f_filtered' = <<>>
    /\ cb' = "f_check"
    /\ UNCHANGED <<app_running, frame_buffer, render_buffer, sensor_queue, canvas_image,
                   fusion_timer, display_timer, m_pc>>
    /\ UNCHANGED <<fusion_running, yaw_filter, pitch_filter, roll_filter, fused,
                   consumed>>
    /\ UNCHANGED <<cap_vars, reader_vars, render_vars, vr_vars>>

FusionStep ==
    FusionCheck \/ FusionGet \/ FusionWriteYaw \/ FusionWritePitch \/ FusionWriteRoll

\* __init__, line 51, initialize_components, lines 58-63, and
\* ScreenCapture.__init__ / initialize_screen_dimensions (capture.py 13-26):
\* the components are built; mss or monitors[1] may raise, and the exception
\* leaves __init__ before start_threads is called
InitComponents ==
    /\ m_pc = "init_components"
    /\ \E outcome \in {"ok", "no_display"} :
         m_pc' = IF outcome = "ok" THEN "start_capture" ELSE "init_failed"
    /\ UNCHANGED <<app_running, frame_buffer, render_buffer, sensor_queue, canvas_image,
                   fusion_timer, display_timer, cb>>
    /\ UNCHANGED <<cap_vars, reader_vars, fusion_vars, render_vars, vr_vars>>

\* a start() that finds out only now that the display has no dimensions
StartCaptureThenFail ==
    /\ m_pc = "start_capture"
    /\ c_pc' = "loop"
    /\ \E outcome \in {"ok", "no_display"} :
         m_pc' = IF outcome = "ok" THEN "start_reader" ELSE "init_failed"
    /\ UNCHANGED <<app_running, frame_buffer, render_buffer, sensor_queue, canvas_image,
                   fusion_timer, display_timer, cb>>
    /\ UNCHANGED <<cap_running, c_frame, captured, reader_vars, fusion_vars, render_vars,
                   vr_vars>>

\* ------------------------------------------------- VRDisplayApp, main thread
\* start_threads, line 67: screen_capture.start()
StartCapture ==
    /\ m_pc = "start_capture"
    /\ c_pc' = "loop"
    /\ m_pc' = "start_reader"
    /\ UNCHANGED <<app_running, frame_buffer, render_buffer, sensor_queue, canvas_image,
                   fusion_timer, display_timer, cb>>
    /\ UNCHANGED <<cap_running, c_frame, captured, reader_vars, fusion_vars, render_vars,
                   vr_vars>>

\* start_threads, line 68: sensor_reader.start()
StartReader ==
    /\ m_pc = "start_reader"
    /\ s_pc' = "open"
    /\ m_pc' = "start_render"
    /\ UNCHANGED <<app_running, frame_buffer, render_buffer, sensor_queue, canvas_image,
                   fusion_timer, display_timer, cb>>
    /\ UNCHANGED <<reader_running, ser, s_line, s_sample, lines_read, cap_vars, fusion_vars,
                   render_vars, vr_vars>>

\* start_threads, lines 70-72: start the render thread; __init__ goes on to
\* start_process_sensor_loop (line 53)
StartRender ==
    /\ m_pc = "start_render"
    /\ r_pc' = "loop"
    /\ m_pc' = "init_fusion"
    /\ cb' = "f_check"
    /\ UNCHANGED <<app_running, frame_buffer, render_buffer, sensor_queue, canvas_image,
                   fusion_timer, display_timer>>
    /\ UNCHANGED <<r_frame, r_snap, r_out, cap_vars, reader_vars, fusion_vars, vr_vars>>

\* the tk timer of start_process_sensor_loop fires
TimerFusion ==
    /\ m_pc = "mainloop"
    /\ cb = "none"
    /\ fusion_timer
    /\ fusion_timer' = FALSE
    /\ cb' = "f_check"
    /\ UNCHANGED <<app_running, frame_buffer, render_buffer, sensor_queue, canvas_image,
                   display_timer, m_pc>>
    /\ UNCHANGED <<cap_vars, reader_vars, fusion_vars, render_vars, vr_vars>>

\* the tk timer of update_display fires
TimerDisplay ==
    /\ m_pc = "mainloop"
    /\ cb = "none"
    /\ display_timer
    /\ display_timer' = FALSE
    /\ cb' = "d_check"
    /\ UNCHANGED <<app_running, frame_buffer, render_buffer, sensor_queue, canvas_image,
                   fusion_timer, m_pc>>
    /\ UNCHANGED <<cap_vars, reader_vars, fusion_vars, render_vars, vr_vars>>

\* update_display, lines 120 and 159-160: the channel is empty, nothing is
\* shown; the timer is re-armed if the application is running
DisplayCheck ==
    /\ cb = "d_check"
    /\ IF render_buffer = <<>>
       THEN /\ m_pc' = ReturnFrom(m_pc).m_pc
            /\ cb' = ReturnFrom(m_pc).cb
            /\ display_timer' = app_running
       ELSE /\ cb' = "d_get"
            /\ UNCHANGED <<m_pc, display_timer>>
    /\ UNCHANGED <<app_running, frame_buffer, render_buffer, sensor_queue, canvas_image,
                   fusion_timer>>
    /\ UNCHANGED <<cap_vars, reader_vars, fusion_vars, render_vars, vr_vars>>

\* update_display, lines 121-134 and 152-160: pop a combined frame and put it
\* on the canvas (queue.Empty is caught and passes); re-arm the timer
DisplayGet ==
    /\ cb = "d_get"
    /\ IF render_buffer = <<>>
       THEN UNCHANGED <<render_buffer, canvas_image>>
       ELSE /\ canvas_image' = <<Head(render_buffer)>>
            /\ render_buffer' = Tail(render_buffer)
    /\ m_pc' = ReturnFrom(m_pc).m_pc
    /\ cb' = ReturnFrom(m_pc).cb
    /\ display_timer' = app_running
    /\ UNCHANGED <<app_running, frame_buffer, sensor_queue, fusion_timer>>
    /\ UNCHANGED <<cap_vars, reader_vars, fusion_vars, render_vars, vr_vars>>

\* quit_app, line 164 (bound to Escape, delivered by mainloop)
QuitApp ==
    /\ m_pc = "mainloop"
    /\ cb = "none"
    /\ app_running' = FALSE
    /\ cb' = "q_capture"
    /\ UNCHANGED <<frame_buffer, render_buffer, sensor_queue, canvas_image, fusion_timer,
                   display_timer, m_pc>>
    /\ UNCHANGED <<cap_vars, reader_vars, fusion_vars, render_vars, vr_vars>>

\* quit_app, line 165, and ScreenCapture.stop, lines 92-94
QuitCapture ==
    /\ cb = "q_capture"
    /\ cap_running' = FALSE
    /\ cb' = "q_reader"
    /\ UNCHANGED <<app_running, frame_buffer, render_buffer, sensor_queue, canvas_image,
                   fusion_timer, display_timer, m_pc>>
    /\ UNCHANGED <<c_pc, c_frame, captured, reader_vars, fusion_vars, render_vars, vr_vars>>

\* quit_app, line 166, and SensorReader.stop, lines 72-74
QuitReader ==
    /\ cb = "q_reader"
    /\ reader_running' = FALSE
    /\ cb' = "q_fusion"
    /\ UNCHANGED <<app_running, frame_buffer, render_buffer, sensor_queue, canvas_image,
                   fusion_timer, display_timer, m_pc>>
    /\ UNCHANGED <<s_pc, ser, s_line, s_sample, lines_read, cap_vars, fusion_vars,
                   render_vars, vr_vars>>

\* quit_app, lines 167-168: SensorFusion.stop, then root.quit() ends mainloop
QuitFusion ==
    /\ cb = "q_fusion"
    /\ fusion_running' = FALSE
    /\ m_pc' = "exited"
    /\ cb' = "none"
    /\ UNCHANGED <<app_running, frame_buffer, render_buffer, sensor_queue, canvas_image,
                   fusion_timer, display_timer>>
    /\ UNCHANGED <<yaw_filter, pitch_filter, roll_filter, sensor_data, data_lock, f_filtered,
                   fused, consumed>>
    /\ UNCHANGED <<cap_vars, reader_vars, render_vars, vr_vars>>

StartStep == InitComponents \/ StartCapture \/ StartReader \/ StartRender

DisplayStep == TimerDisplay \/ DisplayCheck \/ DisplayGet

QuitStep == QuitApp \/ QuitCapture \/ QuitReader \/ QuitFusion

\* ------------------------------------------------------------- VRProcessor
Abs(v) == IF v < 0 THEN 0 - v ELSE v

\* a comparison that lets a difference equal to the threshold pass
ShouldUseCacheInclusive(last, current) ==
    IF last = <<>> THEN FALSE
    ELSE \A i \in 1..3 : Abs(current[i] - last[1][i]) <= ORIENTATION_THRESHOLD

\* a comparison against the threshold on some axis instead of every axis
ShouldUseCacheAnyAxis(last, current) ==
    IF last = <<>> THEN FALSE
    ELSE \E i \in 1..3 : Abs(current[i] - last[1][i]) < ORIENTATION_THRESHOLD

\* should_use_cache, lines 89-93
ShouldUseCache(last, current) ==
    IF last = <<>> THEN FALSE
    ELSE \A i \in 1..3 : Abs(current[i] - last[1][i]) < ORIENTATION_THRESHOLD

\* a computation that records the orientation of every call, cache hits included
ComputeDistortionMapsTracksHits(cache, last, current, outcome) ==
    IF ShouldUseCache(last, current) /\ cache # <<>>
    THEN [map_cache |-> cache, last_orientation |-> <<current>>, maps |-> cache,
          hit |-> TRUE, raised |-> FALSE]
    ELSE IF outcome = "raise"
         THEN [map_cache |-> cache, last_orientation |-> last, maps |-> <<>>,
               hit |-> FALSE, raised |-> TRUE]
    ELSE LET maps == << [orient |-> current, by |-> outcome] >>
         IN  [map_cache |-> maps, last_orientation |-> <<current>>, maps |-> maps,
              hit |-> FALSE, raised |-> FALSE]

\* a computation with no fallback: a failure of the accelerated kernel leaves
\* the call
ComputeDistortionMapsNoFallback(cache, last, current, outcome) ==
    IF ShouldUseCache(last, current) /\ cache # <<>>
    THEN [map_cache |-> cache, last_orientation |-> last, maps |-> cache,
          hit |-> TRUE, raised |-> FALSE]
    ELSE IF outcome \in {"raise", "fallback"}
         THEN [map_cache |-> cache, last_orientation |-> last, maps |-> <<>>,
               hit |-> FALSE, raised |-> TRUE]
    ELSE LET maps == << [orient |-> current, by |-> outcome] >>
         IN  [map_cache |-> maps, last_orientation |-> <<current>>, maps |-> maps,
              hit |-> FALSE, raised |-> FALSE]

\* compute_distortion_maps, lines 95-119, on the cache `cache` and the recorded
\* orientation `last`, for `current`; `outcome` is what the computation does if
\* it runs: "jit" (the accelerated kernel returns), "fallback" (it raises and
\* the fallback returns) or "raise" (both raise, and the exception leaves the
\* call).  A map is the orientation it was computed for and the path that
\* computed it.
ComputeDistortionMaps(cache, last, current, outcome) ==
    IF ShouldUseCache(last, current) /\ cache # <<>>
    THEN [map_cache |-> cache, last_orientation |-> last, maps |-> cache,
          hit |-> TRUE, raised |-> FALSE]
    ELSE IF outcome = "raise"
         THEN [map_cache |-> cache, last_orientation |-> last, maps |-> <<>>,
               hit |-> FALSE, raised |-> TRUE]
    ELSE LET maps == << [orient |-> current, by |-> outcome] >>
         IN  [map_cache |-> maps, last_orientation |-> <<current>>, maps |-> maps,
              hit |-> FALSE, raised |-> FALSE]

\* the record of one call, kept for the last two calls
CallRecord(current, res) ==
    [orient |-> current, hit |-> res.hit, raised |-> res.raised, maps |-> res.maps]

Remember(calls, rec) ==
    IF Len(calls) < 2 THEN Append(calls, rec) ELSE <<calls[2], rec>>

\* ------------------------------------------------- distortion maps (exact)
\* Lengths are integers in half pixels; a map coordinate is a fraction of
\* half pixels in lowest terms.  Angles are whole degrees, multiples of 90,
\* whose sines and cosines are taken as exact.

RECURSIVE GCD(_, _)
GCD(a, b) == IF b = 0 THEN a ELSE GCD(b, a % b)

\* the fraction n/d (d # 0) in lowest terms with a positive denominator
Fraction(n, d) ==
    LET g == GCD(Abs(n), Abs(d))
        s == IF d < 0 THEN 0 - 1 ELSE 1
    IN  [n |-> s * (n \div g), d |-> s * (d \div g)]

\* np.full(size, -1.0): the coordinate -1 pixel
Sentinel == Fraction(0 - 2, 1)

\* math.cos and math.sin of math.radians(degrees), math_utils.py lines 6-26
Cos(degrees) ==
    CASE degrees % 360 = 0 -> 1
      [] degrees % 360 = 180 -> 0 - 1
      [] OTHER -> 0

Sin(degrees) ==
    CASE degrees % 360 = 90 -> 1
      [] degrees % 360 = 270 -> 0 - 1
      [] OTHER -> 0

\* the @ of two 3x3 matrices
MatMul(a, b) ==
    [i \in 1..3 |-> [j \in 1..3 |-> a[i][1] * b[1][j] + a[i][2] * b[2][j] + a[i][3] * b[3][j]]]

\* create_rotation_matrix, math_utils.py lines 5-28
CreateRotationMatrix(yaw, pitch, roll) ==
    LET rot_yaw == << <<Cos(yaw), 0, Sin(yaw)>>,
                      <<0, 1, 0>>,
                      <<0 - Sin(yaw), 0, Cos(yaw)>> >>
        rot_pitch == << <<1, 0, 0>>,
                        <<0, Cos(pitch), 0 - Sin(pitch)>>,
                        <<0, Sin(pitch), Cos(pitch)>> >>
        rot_roll == << <<Cos(roll), 0 - Sin(roll), 0>>,
                       <<Sin(roll), Cos(roll), 0>>,
                       <<0, 0, 1>> >>
    IN  MatMul(MatMul(rot_yaw, rot_pitch), rot_roll)

\* a grid centred on the full width instead of half of it
XCenteredOff(x, target_width) == 2 * x - 2 * target_width

\* precompute_vr_parameters, line 80 (and 81 for y): x_grid - target_width / 2
XCentered(x, target_width) == 2 * x - target_width

\* precompute_vr_parameters, lines 67-87, for a target of target_width by
\* target_height pixels and FOV_DEGREES = 90 (tan of half of it is 1, so the
\* focal length is target_width / 2); half_ipd is given, in half pixels.
\* The flat arrays are the row-major flattening of np.mgrid.
PrecomputeVRParameters(target_width, target_height, half_ipd) ==
    LET size == target_width * target_height
    IN  [target_width |-> target_width,
         target_height |-> target_height,
         focal_length |-> target_width,
         half_ipd |-> half_ipd,
         x_flat |-> [i \in 1..size |-> XCentered((i - 1) % target_width, target_width)],
         y_flat |-> [i \in 1..size |-> XCentered((i - 1) \div target_width, target_height)],
         z_flat |-> [i \in 1..size |-> target_width]]

\* the offsets taken with the eyes exchanged
EyeOffsetSwapped(eye, half_ipd) == IF eye = "left" THEN half_ipd ELSE 0 - half_ipd

\* lines 19 and 42, 127 and 145: minus half_ipd for the left eye, plus for the right
EyeOffset(eye, half_ipd) == IF eye = "left" THEN 0 - half_ipd ELSE half_ipd

\* lines 30-31, 52-53, 137-138, 155-156: (rotated / rotated_z * focal_length)
\* + centre, centre being the target width or height over 2
Project(rotated, rotated_z, focal_length, target_size) ==
    Fraction(rotated * focal_length + target_size * rotated_z, rotated_z)

\* reshape(height, width) of a flat array
Reshape(flat, height, width) ==
    [r \in 1..height |-> [c \in 1..width |-> flat[(r - 1) * width + c]]]

\* compute_vr_distortion, lines 18-22 and 41-45: one rotated coordinate of
\* every point, by row `row` of the rotation matrix
JitRotated(x_flat, y_flat, z_flat, offset, rot_matrix, row) ==
    [i \in 1..Len(x_flat) |->
        (x_flat[i] + offset) * rot_matrix[row][1] + y_flat[i] * rot_matrix[row][2]
            + z_flat[i] * rot_matrix[row][3]]

\* compute_vr_distortion, lines 24-31 and 47-53: one screen coordinate of
\* every point, -1 where rotated z is not positive
JitScreen(rotated, rotated_z, focal_length, target_size) ==
    [i \in 1..Len(rotated) |->
        IF rotated_z[i] > 0
        THEN Project(rotated[i], rotated_z[i], focal_length, target_size)
        ELSE Sentinel]

\* compute_vr_distortion, lines 8-58
ComputeVRDistortion(x_flat, y_flat, z_flat, half_ipd, focal_length, target_width, target_height, rot_matrix, img_height, img_width) ==
    LET left(row) == JitRotated(x_flat, y_flat, z_flat, EyeOffset("left", half_ipd),
                                rot_matrix, row)
        right(row) == JitRotated(x_flat, y_flat, z_flat, EyeOffset("right", half_ipd),
                                 rot_matrix, row)
    IN  [left_map_x |-> Reshape(JitScreen(left(1), left(3), focal_length, target_width),
                                img_height, img_width),
         left_map_y |-> Reshape(JitScreen(left(2), left(3), focal_length, target_height),
                                img_height, img_width),
         right_map_x |-> Reshape(JitScreen(right(1), right(3), focal_length, target_width),
                                 img_height, img_width),
         right_map_y |-> Reshape(JitScreen(right(2), right(3), focal_length, target_height),
                                 img_height, img_width)]

\* a matrix used as it is where its transpose is meant
TransposeOmitted(m) == m

\* rotation_matrix.T
Transpose(m) == [i \in 1..3 |-> [j \in 1..3 |-> m[j][i]]]

\* lines 126-131 and 144-149: the (size, 3) array of points of one eye times
\* the transposed rotation matrix
FallbackRotated(self, eye, rotation_matrix) ==
    LET coords == [i \in 1..Len(self.x_flat) |->
                      <<self.x_flat[i] + EyeOffset(eye, self.half_ipd), self.y_flat[i],
                        self.z_flat[i]>>]
        t == Transpose(rotation_matrix)
    IN  [i \in 1..Len(coords) |->
            [j \in 1..3 |-> coords[i][1] * t[1][j] + coords[i][2] * t[2][j]
                              + coords[i][3] * t[3][j]]]

\* lines 133-141 and 151-159: the screen coordinate of column `col` of the
\* rotated points, written only at the valid indices, reshaped
FallbackMap(self, rotated, col, target_size) ==
    LET valid_indices == {i \in 1..Len(rotated) : rotated[i][3] > 0}
        screen == [i \in 1..Len(rotated) |->
                      IF i \in valid_indices
                      THEN Project(rotated[i][col], rotated[i][3], self.focal_length,
                                   target_size)
                      ELSE Sentinel]
    IN  Reshape(screen, self.target_height, self.target_width)

\* VRProcessor.compute_vr_distortion_fallback, lines 121-161
ComputeVRDistortionFallback(self, yaw, pitch, roll) ==
    LET rotation_matrix == CreateRotationMatrix(yaw, pitch, roll)
        left_rotated == FallbackRotated(self, "left", rotation_matrix)
        right_rotated == FallbackRotated(self, "right", rotation_matrix)
    IN  [left_map_x |-> FallbackMap(self, left_rotated, 1, self.target_width),
         left_map_y |-> FallbackMap(self, left_rotated, 2, self.target_height),
         right_map_x |-> FallbackMap(self, right_rotated, 1, self.target_width),
         right_map_y |-> FallbackMap(self, right_rotated, 2, self.target_height)]

\* compute_distortion_maps, lines 102-111: the call of the accelerated kernel
AcceleratedMaps(self, yaw, pitch, roll) ==
    ComputeVRDistortion(self.x_flat, self.y_flat, self.z_flat, self.half_ipd,
                        self.focal_length, self.target_width, self.target_height,
                        CreateRotationMatrix(yaw, pitch, roll),
                        self.target_height, self.target_width)

Outcomes == {"jit", "fallback", "raise"}

\* a render loop that never tests the run flag
RenderLoopForever ==
    /\ r_pc = "loop"
    /\ r_pc' = "full"
    /\ UNCHANGED <<r_frame, r_snap, r_out, app_vars, cap_vars, reader_vars, fusion_vars,
                   vr_vars>>

\* ----------------------------------------------------------- render thread
\* render_frame_thread, line 82: the loop test
RenderLoop ==
    /\ r_pc = "loop"
    /\ r_pc' = IF app_running THEN "full" ELSE "done"
    /\ UNCHANGED <<r_frame, r_snap, r_out, app_vars, cap_vars, reader_vars, fusion_vars,
                   vr_vars>>

\* a render loop that goes on whether or not the output channel is full
RenderCheckFullSkipped ==
    /\ r_pc = "full"
    /\ r_pc' = "empty"
    /\ UNCHANGED <<r_frame, r_snap, r_out, app_vars, cap_vars, reader_vars, fusion_vars,
                   vr_vars>>

\* render_frame_thread, lines 84-86: skip the cycle while the output channel is full
RenderCheckFull ==
    /\ r_pc = "full"
    /\ r_pc' = IF QueueFull(render_buffer, FRAME_BUFFER_SIZE) THEN "loop" ELSE "empty"
    /\ UNCHANGED <<r_frame, r_snap, r_out, app_vars, cap_vars, reader_vars, fusion_vars,
                   vr_vars>>

\* render_frame_thread, lines 89 and 113: go on only if the frame channel is not empty
RenderCheckEmpty ==
    /\ r_pc = "empty"
    /\ r_pc' = IF frame_buffer = <<>> THEN "loop" ELSE "get"
    /\ UNCHANGED <<r_frame, r_snap, r_out, app_vars, cap_vars, reader_vars, fusion_vars,
                   vr_vars>>

\* a pop that takes the newest queued frame instead of the oldest
RenderGetNewest ==
    /\ r_pc = "get"
    /\ IF frame_buffer = <<>>
       THEN r_pc' = "loop" /\ UNCHANGED <<frame_buffer, r_frame>>
       ELSE /\ r_frame' = <<frame_buffer[Len(frame_buffer)]>>
            /\ frame_buffer' = SubSeq(frame_buffer, 1, Len(frame_buffer) - 1)
            /\ r_pc' = "snap"
    /\ UNCHANGED <<app_running, render_buffer, sensor_queue, canvas_image, fusion_timer,
                   display_timer, m_pc, cb>>
    /\ UNCHANGED <<r_snap, r_out, cap_vars, reader_vars, fusion_vars, vr_vars>>

\* render_frame_thread, lines 90 and 109-111: get_nowait; queue.Empty is caught
RenderGet ==
    /\ r_pc = "get"
    /\ IF frame_buffer = <<>>
       THEN r_pc' = "loop" /\ UNCHANGED <<frame_buffer, r_frame>>
       ELSE /\ r_frame' = <<Head(frame_buffer)>>
            /\ frame_buffer' = Tail(frame_buffer)
            /\ r_pc' = "snap"
    /\ UNCHANGED <<app_running, render_buffer, sensor_queue, canvas_image, fusion_timer,
                   display_timer, m_pc, cb>>
    /\ UNCHANGED <<r_snap, r_out, cap_vars, reader_vars, fusion_vars, vr_vars>>

\* a snapshot that waits until a sample has been fused
RenderSnapshotWaits ==
    /\ r_pc = "snap"
    /\ CanAcquire(data_lock)
    /\ fused # {}
    /\ r_snap' = <<sensor_data>>
    /\ r_pc' = "render"
    /\ UNCHANGED <<r_frame, r_out, app_vars, cap_vars, reader_vars, fusion_vars, vr_vars>>

\* render_frame_thread, line 93, and get_sensor_data, lines 23-26: copy the
\* slot under the lock
RenderSnapshot ==
    /\ r_pc = "snap"
    /\ CanAcquire(data_lock)
    /\ r_snap' = <<sensor_data>>
    /\ r_pc' = "render"
    /\ UNCHANGED <<r_frame, r_out, app_vars, cap_vars, reader_vars, fusion_vars, vr_vars>>

\* the offsets added to the wrong axes
CalibratedSwapped(snap) == <<snap.yaw + PITCH_OFFSET, snap.pitch + YAW_OFFSET, snap.roll>>

\* the orientation render_frame_thread passes to render_frame, lines 94-96
Calibrated(snap) == <<snap.yaw + YAW_OFFSET, snap.pitch + PITCH_OFFSET, snap.roll>>

\* render_frame_thread, line 98, and render_frame, lines 163-181: compute or
\* reuse the maps and remap the frame, the computation ending in one of
\* `outcomes`; an exception out of compute_distortion_maps is caught by
\* nothing and ends the thread
RenderFrame(outcomes) ==
    /\ r_pc = "render"
    /\ \E outcome \in outcomes :
         LET current == Calibrated(r_snap[1])
             res == ComputeDistortionMaps(map_cache, last_orientation, current, outcome)
         IN  /\ map_cache' = res.map_cache
             /\ last_orientation' = res.last_orientation
             /\ IF res.raised
                THEN r_pc' = "crashed" /\ r_out' = <<>>
                ELSE /\ r_out' = << [frame |-> r_frame[1], maps |-> res.maps[1],
                                     hit |-> res.hit] >>
                     /\ r_pc' = "put"
    /\ UNCHANGED <<r_frame, r_snap, vr_calls, projection, app_vars, cap_vars, reader_vars,
                   fusion_vars>>

\* render_frame_thread, lines 101-108 and 113: put_nowait of the combined frame
\* (a combined frame is named by the frame it was rendered from); on queue.Full
\* remove the oldest and put again (queue.Empty is caught and passes).  The
\* cycle's locals are dead when it ends.
RenderPut ==
    /\ r_pc \in {"put", "rget", "rput2"}
    /\ CASE r_pc = "put" ->
              IF QueueFull(render_buffer, FRAME_BUFFER_SIZE)
              THEN r_pc' = "rget" /\ UNCHANGED render_buffer
              ELSE r_pc' = "loop" /\ render_buffer' = Append(render_buffer, r_out[1].frame)
         [] r_pc = "rget" ->
              IF render_buffer = <<>>
              THEN r_pc' = "loop" /\ UNCHANGED render_buffer
              ELSE r_pc' = "rput2" /\ render_buffer' = Tail(render_buffer)
         [] r_pc = "rput2" ->
              IF QueueFull(render_buffer, FRAME_BUFFER_SIZE)
              THEN r_pc' = "crashed" /\ UNCHANGED render_buffer
              ELSE r_pc' = "loop" /\ render_buffer' = Append(render_buffer, r_out[1].frame)
    /\ IF r_pc' \in {"loop", "crashed"}
       THEN r_frame' = <<>> /\ r_snap' = <<>> /\ r_out' = <<>>
       ELSE UNCHANGED <<r_frame, r_snap, r_out>>
    /\ UNCHANGED <<app_running, frame_buffer, sensor_queue, canvas_image, fusion_timer,
                   display_timer, m_pc, cb>>
    /\ UNCHANGED <<cap_vars, reader_vars, fusion_vars, vr_vars>>

RenderStep(outcomes) ==
    RenderLoop \/ RenderCheckFull \/ RenderCheckEmpty \/ RenderGet \/ RenderSnapshot
        \/ RenderFrame(outcomes) \/ RenderPut

\* ------------------------------------------------------------ specifications
\* The whole program: the main thread, the capture, sensor and render threads.
\* The accelerated map computation succeeds.
Next ==
    \/ StartStep
    \/ CaptureStep
    \/ ReaderStep(SensorLines, MaxLines)
    \/ FusionStep
    \/ TimerFusion
    \/ DisplayStep
    \/ QuitStep
    \/ RenderStep({"jit"})

Spec == Init /\ [][Next]_vars

\* The whole program under the scheduler's fairness: every thread that can
\* take a step eventually takes one.
FairSpec ==
    /\ Spec
    /\ WF_vars(CaptureStep)
    /\ WF_vars(ReaderStep(SensorLines, MaxLines))
    /\ WF_vars(RenderStep({"jit"}))
    /\ WF_vars(StartStep \/ FusionStep \/ TimerFusion \/ DisplayStep \/ QuitStep)

\* Sensor flood: the transport delivers well-formed samples faster than the
\* fusion timer drains them (no frames are captured or rendered).
NextFlood ==
    \/ StartStep
    \/ ReaderStep(FloodLines, MaxFloodLines)
    \/ FusionStep
    \/ TimerFusion
    \/ TimerDisplay
    \/ DisplayCheck
    \/ QuitStep

SpecFlood == Init /\ [][NextFlood]_vars

\* The sensor flood with each thread scheduled fairly: the ingest thread and
\* the main thread (construction, callbacks and timers) keep taking steps.
FairFlood ==
    /\ SpecFlood
    /\ WF_vars(ReaderStep(FloodLines, MaxFloodLines))
    /\ WF_vars(StartStep \/ FusionStep \/ TimerFusion \/ TimerDisplay \/ DisplayCheck
                 \/ QuitStep)

\* Sensor stream: the transport delivers well-formed samples of two kinds
\* while frames are captured, rendered and presented.
GoodLines == {LineGoodA, LineGoodB}

NextSensor ==
    \/ StartStep
    \/ CaptureStep
    \/ ReaderStep(GoodLines, MaxSensorLines)
    \/ FusionStep
    \/ TimerFusion
    \/ DisplayStep
    \/ QuitStep
    \/ RenderStep({"jit"})

SpecSensor == Init /\ [][NextSensor]_vars

\* Map computation outcomes: the whole program with the map computation
\* ending in any of its outcomes.
NextFallback ==
    \/ StartStep
    \/ CaptureStep
    \/ ReaderStep(GoodLines, MaxLines)
    \/ FusionStep
    \/ TimerFusion
    \/ DisplayStep
    \/ QuitStep
    \/ RenderStep(Outcomes)

SpecFallback == Init /\ [][NextFallback]_vars

\* VRProcessor alone: compute_distortion_maps called with orientations around
\* the threshold, each computation ending in any of the three outcomes.
CacheYaws == {0, 49, 50, 99}
CachePitches == {0, 50}
CacheRolls == {0, 49}

CacheCall ==
    /\ \E yaw \in CacheYaws, pitch \in CachePitches, roll \in CacheRolls, outcome \in Outcomes :
         LET current == <<yaw, pitch, roll>>
             res == ComputeDistortionMaps(map_cache, last_orientation, current, outcome)
         IN  /\ map_cache' = res.map_cache
             /\ last_orientation' = res.last_orientation
             /\ vr_calls' = Remember(vr_calls, CallRecord(current, res))
    /\ UNCHANGED <<projection, app_vars, cap_vars, reader_vars, fusion_vars, render_vars>>

SpecCache == Init /\ [][CacheCall]_vars

\* ------------------------------------------------------------------ claims
\* the frames the capture loop has grabbed so far, newest last, cut to the
\* newest n
NewestFrames(n) ==
    LET k == IF captured < n THEN captured ELSE n
    IN  [i \in 1..k |-> captured - k + i]

\* C1: every capture cycle ends with the frame captured in it inserted at the
\* tail of the frame channel, whatever the render thread does in between.
C1_NewFrameInserted ==
    [][(c_pc \in {"put", "get", "put2"} /\ c_pc' \in {"loop", "crashed"})
          => (frame_buffer' # <<>> /\ frame_buffer'[Len(frame_buffer')] = c_frame)]_vars

\* C2: while no consumer runs (the render thread is not started), between
\* capture cycles the frame channel holds exactly the FRAME_BUFFER_SIZE most
\* recently captured frames (all of them while fewer were captured), oldest first.
C2_KeepsNewestInOrder ==
    (r_pc = "unstarted" /\ c_pc \in {"loop", "done"})
        => frame_buffer = NewestFrames(FRAME_BUFFER_SIZE)

\* C2 witness: FRAME_BUFFER_SIZE + 1 frames were pushed with no consumer, and
\* the oldest was dropped
C2_Witness ==
    /\ r_pc = "unstarted"
    /\ c_pc = "loop"
    /\ captured = FRAME_BUFFER_SIZE + 1
    /\ frame_buffer = <<2, 3>>

\* C3: every snapshot get_sensor_data returns is the zero triple or the
\* filtered triple of one sample.
C3_SnapshotUntorn ==
    r_snap # <<>> => r_snap[1] \in {ZeroOrientation} \cup fused

\* C3 witness: a snapshot of a filtered sample, taken while the fusion drain
\* was between two samples or done
C3_Witness ==
    /\ r_snap # <<>>
    /\ r_snap[1] \in fused
    /\ r_snap[1] # ZeroOrientation

\* |a - b| < ORIENTATION_THRESHOLD on each of the three axes
WithinThreshold(a, b) ==
    /\ a[1] - b[1] < ORIENTATION_THRESHOLD /\ b[1] - a[1] < ORIENTATION_THRESHOLD
    /\ a[2] - b[2] < ORIENTATION_THRESHOLD /\ b[2] - a[2] < ORIENTATION_THRESHOLD
    /\ a[3] - b[3] < ORIENTATION_THRESHOLD /\ b[3] - a[3] < ORIENTATION_THRESHOLD

\* |a - b| > ORIENTATION_THRESHOLD on at least one axis
BeyondThreshold(a, b) ==
    \E i \in 1..3 :
        a[i] - b[i] > ORIENTATION_THRESHOLD \/ b[i] - a[i] > ORIENTATION_THRESHOLD

\* C4: a call of compute_distortion_maps reuses the cached map iff a map was
\* computed before and the call's orientation is within the threshold, on every
\* axis, of the orientation recorded at the last computation; otherwise it
\* recomputes, caches the new map with the call's orientation, and uses it.  So
\* the map a call returns was computed within the threshold of the call's
\* orientation.
C4_ReuseIffWithinThreshold ==
    [][vr_calls' # vr_calls =>
          LET call == vr_calls'[Len(vr_calls')]
              valid == /\ map_cache # <<>>
                       /\ last_orientation # <<>>
                       /\ WithinThreshold(call.orient, last_orientation[1])
          IN  /\ call.hit <=> valid
              /\ call.hit =>
                    /\ call.maps = map_cache
                    /\ map_cache' = map_cache
                    /\ last_orientation' = last_orientation
              /\ (~call.hit /\ ~call.raised) =>
                    /\ call.maps[1].orient = call.orient
                    /\ map_cache' = call.maps
                    /\ last_orientation' = <<call.orient>>
              /\ ~call.raised => WithinThreshold(call.maps[1].orient, call.orient)]_vars

\* C4 witness: a call that reused a map computed at another orientation, after
\* a call that had to recompute
C4_Witness ==
    /\ Len(vr_calls) = 2
    /\ ~vr_calls[1].hit /\ ~vr_calls[1].raised
    /\ vr_calls[2].hit
    /\ vr_calls[2].orient # vr_calls[2].maps[1].orient

\* C5 as stated: of two consecutive calls that return, the second reuses the
\* first's map if their orientations are within the threshold on every axis,
\* and recomputes if they differ by more than the threshold on some axis.
C5_ConsecutiveCalls ==
    (Len(vr_calls) = 2 /\ ~vr_calls[1].raised /\ ~vr_calls[2].raised) =>
        /\ WithinThreshold(vr_calls[2].orient, vr_calls[1].orient)
              => (vr_calls[2].hit /\ vr_calls[2].maps = vr_calls[1].maps)
        /\ BeyondThreshold(vr_calls[2].orient, vr_calls[1].orient) => ~vr_calls[2].hit

\* C5 amended: of two consecutive calls of which the first computed the map,
\* the second reuses that map if their orientations are within the threshold
\* on every axis, and does not reuse it if they differ by more than the
\* threshold on some axis.
C5_AfterComputation ==
    (Len(vr_calls) = 2 /\ ~vr_calls[1].hit /\ ~vr_calls[1].raised) =>
        /\ WithinThreshold(vr_calls[2].orient, vr_calls[1].orient)
              => (vr_calls[2].hit /\ vr_calls[2].maps = vr_calls[1].maps)
        /\ BeyondThreshold(vr_calls[2].orient, vr_calls[1].orient) => ~vr_calls[2].hit

\* C5 witness: a computation followed by a reuse at a different orientation
C5_Witness ==
    /\ Len(vr_calls) = 2
    /\ ~vr_calls[1].hit /\ ~vr_calls[1].raised
    /\ vr_calls[2].hit
    /\ vr_calls[2].orient # vr_calls[1].orient
    /\ vr_calls[2].maps = vr_calls[1].maps

\* the line carries three well-formed numbers labelled Yaw, Pitch and Roll
CarriesSample(line) == Handled[line].kind = "sample"

\* C6: handling a line that does not carry three well-formed numbers labelled
\* Yaw, Pitch and Roll queues nothing, raises nothing, and leaves the ingest
\* loop running with its port open.
C6_BadLineDiscarded ==
    [][(s_pc = "handle" /\ s_pc' # "handle" /\ ~CarriesSample(s_line[1]))
          => (s_pc' = "loop" /\ ser' = ser /\ sensor_queue' = sensor_queue)]_vars

\* C7: a put on a full sensor channel drops the new sample, leaves the
\* channel's contents and order as they were, and returns to the loop.
C7_FullSensorChannelDropsNew ==
    [][(s_pc = "put" /\ s_pc' # "put" /\ Len(sensor_queue) >= SENSOR_QUEUE_SIZE)
          => (sensor_queue' = sensor_queue /\ s_pc' = "loop" /\ ser' = ser)]_vars

\* C7 witness: the channel is full of the first SENSOR_QUEUE_SIZE samples and
\* a later sample was handled and is not in it
C7_Witness ==
    /\ s_pc = "loop"
    /\ Len(sensor_queue) = SENSOR_QUEUE_SIZE
    /\ lines_read > SENSOR_QUEUE_SIZE
    /\ \A i \in 1..Len(sensor_queue) : sensor_queue[i].timestamp = i

\* ScreenCapture.stop() has returned to quit_app
CaptureStopReturned == cb \in {"q_reader", "q_fusion"} \/ m_pc = "exited"

\* C8: once ScreenCapture.stop() has returned the capture loop has exited,
\* and no frame is put into the frame channel afterwards.
C8_StopWaitsForCaptureLoop ==
    [][CaptureStopReturned =>
          /\ c_pc = "done"
          /\ Len(frame_buffer') <= Len(frame_buffer)]_vars

\* every channel holds only whole items and no more than its capacity
ChannelsWhole ==
    /\ Len(frame_buffer) <= FRAME_BUFFER_SIZE
    /\ Len(render_buffer) <= FRAME_BUFFER_SIZE
    /\ Len(sensor_queue) <= SENSOR_QUEUE_SIZE
    /\ \A i \in 1..Len(frame_buffer) : frame_buffer[i] \in 1..captured
    /\ \A i \in 1..Len(render_buffer) : render_buffer[i] \in 1..captured
    /\ \A i \in 1..Len(sensor_queue) :
         /\ DOMAIN sensor_queue[i] = {"yaw", "pitch", "roll", "timestamp"}
         /\ sensor_queue[i].timestamp \in 1..lines_read

\* the three loops have returned, quit_app has run to its end and nobody
\* holds the orientation lock
AllStopped ==
    /\ c_pc = "done"
    /\ s_pc = "done"
    /\ r_pc = "done"
    /\ m_pc = "exited"
    /\ data_lock = "free"

\* C9: the channels always hold whole items within capacity, and under fair
\* scheduling, once quit_app has cleared the application's run flag, the
\* capture, ingest and render loops each exit, quit_app completes and the
\* orientation lock is left free.
C9_StopTakesEffect ==
    /\ []ChannelsWhole
    /\ (~app_running) ~> [](AllStopped /\ ChannelsWhole)

\* C9 witness: quit_app ran while frames and samples were in flight, and
\* every loop has exited
C9_Witness ==
    /\ AllStopped
    /\ ~app_running /\ ~cap_running /\ ~reader_running
    /\ captured > 0
    /\ sensor_queue # <<>>

\* the orientation the filters last produced: zero before the first sample
LastKnown ==
    IF yaw_filter = <<>> THEN ZeroOrientation
    ELSE [yaw |-> yaw_filter[1], pitch |-> pitch_filter[1], roll |-> roll_filter[1]]

\* the ingest loop has ended and every sample it queued has been fused
Drained ==
    /\ s_pc = "done"
    /\ sensor_queue = <<>>
    /\ cb \notin {"f_get", "f_wyaw", "f_wpitch", "f_wroll"}

\* the ingest loop ends while its run flag is still set
IngestFaults == s_pc \in {"open", "loop", "handle"} /\ s_pc' = "done" /\ reader_running

\* C10: when the ingest loop ends on a fault the port is not left open and
\* nothing of capture, fusion, render or presentation changes; once the
\* queued samples are drained the orientation slot holds the last filtered
\* orientation (zero if none) and every snapshot taken from then on equals it.
C10_FaultEndsOnlyIngest ==
    /\ [](s_pc = "done" => ser # "open")
    /\ [][IngestFaults =>
            /\ ser' # "open" /\ (ser = "open" => ser' = "closed")
            /\ UNCHANGED <<app_vars, cap_vars, fusion_vars, render_vars, reader_running>>]_vars
    /\ [](Drained => sensor_data = LastKnown)
    /\ [][Drained => Drained' /\ sensor_data' = sensor_data]_vars
    /\ [][(Drained /\ r_pc = "snap" /\ r_pc' = "render") => r_snap' = <<LastKnown>>]_vars

\* C10 witness: the transport failed after a sample had been fused, the port
\* is closed, the application is still running and the render thread holds a
\* snapshot of the last fused orientation
C10_Witness ==
    /\ Drained
    /\ ser = "closed"
    /\ reader_running /\ app_running /\ cap_running
    /\ fused # {}
    /\ r_pc = "render"
    /\ r_snap = <<LastKnown>>
    /\ c_pc \notin {"unstarted", "done"}

\* no frame occurs twice in `s`
NoDuplicates(s) == \A i, j \in 1..Len(s) : s[i] = s[j] => i = j

\* the render thread holds a popped frame
HoldsFrame == r_pc \in {"snap", "render", "put", "rget", "rput2"}

\* C11: the render loop pops only when the frame channel is non-empty and the
\* output channel is not full; a popped frame is held until its cycle ends
\* with the rendered result appended to the output channel, no frame is in the
\* pipeline twice, and the loop ends only on the cleared run flag, never on an
\* empty frame channel.
C11_PopRenderPush ==
    /\ [][(r_pc = "get" /\ r_pc' = "snap") =>
            /\ frame_buffer # <<>>
            /\ Len(render_buffer) < FRAME_BUFFER_SIZE
            /\ r_frame' = <<Head(frame_buffer)>>]_vars
    /\ [](HoldsFrame <=> r_frame # <<>>)
    /\ [][(HoldsFrame /\ ~HoldsFrame') =>
            /\ r_pc' = "loop"
            /\ render_buffer' = Append(render_buffer, r_frame[1])]_vars
    /\ [](NoDuplicates(frame_buffer \o r_frame \o render_buffer \o canvas_image))
    /\ [][(r_pc = "get" /\ frame_buffer = <<>>) => r_pc' \in {"get", "loop"}]_vars
    /\ [][(r_pc # "done" /\ r_pc' = "done") => ~app_running]_vars
    /\ [](r_pc # "crashed")

\* C11 witness: three frames were popped and rendered; one is on the canvas
\* and two fill the output channel
C11_Witness ==
    /\ r_pc = "loop"
    /\ canvas_image # <<>>
    /\ Len(render_buffer) = FRAME_BUFFER_SIZE
    /\ \A i \in 1..Len(render_buffer) : render_buffer[i] > canvas_image[1]

\* C12: the orientation passed to the projector is the snapshot taken in the
\* same cycle after the pop, plus the yaw offset on yaw and the pitch offset
\* on pitch, roll unchanged; no step of the render thread writes the
\* orientation slot.
C12_CalibratedSnapshot ==
    /\ [][(r_pc = "snap" /\ r_pc' = "render") =>
            (r_frame # <<>> /\ r_snap = <<>> /\ r_snap' = <<sensor_data>>)]_vars
    /\ [](r_snap # <<>> => r_pc \in {"render", "put", "rget", "rput2"})
    /\ [][(r_pc = "render" /\ r_pc' # "render") =>
            LET snap == r_snap[1]
                passed == <<snap.yaw + YAW_OFFSET, snap.pitch + PITCH_OFFSET, snap.roll>>
                reused == ShouldUseCache(last_orientation, passed) /\ map_cache # <<>>
            IN  /\ r_out'[1].hit = reused
                /\ ~reused => (r_out'[1].maps.orient = passed /\ last_orientation' = <<passed>>)
                /\ reused => r_out'[1].maps = map_cache[1]]_vars
    /\ [][r_pc' # r_pc => sensor_data' = sensor_data]_vars

\* C12 witness: a frame was rendered with maps computed for a fused sample's
\* orientation plus the offsets
C12_Witness ==
    /\ r_pc = "put"
    /\ r_snap # <<>> /\ r_snap[1] # ZeroOrientation
    /\ ~r_out[1].hit
    /\ r_out[1].maps.orient[1] = r_snap[1].yaw + YAW_OFFSET
    /\ r_out[1].maps.orient[1] # r_snap[1].yaw + PITCH_OFFSET

\* C19: when the display dimensions cannot be determined the failure leaves
\* application construction with no capture, sensor or render thread started
\* and neither timer armed, and nothing starts afterwards.
C19_InitFailureBeforeLoops ==
    /\ [](m_pc = "init_failed" =>
            /\ c_pc = "unstarted" /\ s_pc = "unstarted" /\ r_pc = "unstarted"
            /\ ~fusion_timer /\ ~display_timer
            /\ cb = "none"
            /\ frame_buffer = <<>> /\ sensor_queue = <<>> /\ render_buffer = <<>>)
    /\ [][m_pc = "init_failed" => UNCHANGED vars]_vars

\* C19 witness: construction failed
C19_Witness == m_pc = "init_failed" /\ ser = "unopened" /\ captured = 0

\* the sequence `s` without its last element
Front(s) == SubSeq(s, 1, Len(s) - 1)

\* the value of one axis after the samples' values `values` went through its
\* filter, oldest first (empty before the first)
RECURSIVE FilterAxis(_)
FilterAxis(values) ==
    IF values = <<>> THEN <<>>
    ELSE <<LowPassUpdate(FilterAxis(Front(values)), values[Len(values)])>>

\* the orientation after `samples` were fused in order, each axis through its
\* own filter; zero if there are none
FilterAll(samples) ==
    IF samples = <<>> THEN ZeroOrientation
    ELSE [yaw |-> FilterAxis([i \in 1..Len(samples) |-> samples[i].yaw])[1],
          pitch |-> FilterAxis([i \in 1..Len(samples) |-> samples[i].pitch])[1],
          roll |-> FilterAxis([i \in 1..Len(samples) |-> samples[i].roll])[1]]

\* the samples whose filtered triple has been written to the slot, or is
\* being written under the lock
Written == IF cb = "f_wyaw" THEN Front(consumed) ELSE consumed

\* C13: a snapshot can be taken whenever the lock is free, whether or not any
\* sample has arrived; it is zero before the first sample is written and
\* otherwise the filtered triple of the last sample written; a snapshot in
\* hand does not change when fusion writes again.
C13_SnapshotLastKnown ==
    /\ [](r_pc = "snap" /\ data_lock = "free" => ENABLED RenderSnapshot)
    /\ [][(r_pc = "snap" /\ r_pc' = "render") =>
            /\ r_snap' = <<FilterAll(Written)>>
            /\ Written = <<>> => r_snap' = <<ZeroOrientation>>]_vars
    /\ [][(r_snap # <<>> /\ r_snap' # <<>>) => r_snap' = r_snap]_vars

\* C13 witness: the render thread holds the snapshot of the first sample
\* while fusion has written the second
C13_Witness ==
    /\ r_snap # <<>>
    /\ Len(consumed) = 2
    /\ cb \notin {"f_wyaw", "f_wpitch", "f_wroll"}
    /\ r_snap[1] = FilterAll(Front(consumed))
    /\ sensor_data = FilterAll(consumed)
    /\ r_snap[1] # sensor_data

\* every sample accepted into the sensor channel so far, in the order accepted
AcceptedLog == consumed \o sensor_queue

\* the main thread is inside process_sensor_data
InDrain == cb \in {"f_check", "f_get", "f_wyaw", "f_wpitch", "f_wroll"}

\* C14: the accepted samples form one log that only grows at its end, by a
\* put on a channel that is not full; fusion consumes the log's samples one at
\* a time from the front of the channel, so each is consumed once and in
\* enqueue order; when process_sensor_data returns the channel is empty and
\* the slot holds the consumed samples filtered in order, axis by axis.
C14_ConsumedOnceInOrder ==
    /\ [][(s_pc = "put" /\ s_pc' # "put" /\ ~QueueFull(sensor_queue, SENSOR_QUEUE_SIZE))
            => AcceptedLog' = Append(AcceptedLog, s_sample[1])]_vars
    /\ [][~(s_pc = "put" /\ s_pc' # "put") => AcceptedLog' = AcceptedLog]_vars
    /\ [][consumed' # consumed =>
            /\ sensor_queue # <<>>
            /\ consumed' = Append(consumed, Head(sensor_queue))
            /\ sensor_queue' = Tail(sensor_queue)]_vars
    /\ [](\A i, j \in 1..Len(AcceptedLog) :
            i < j => AcceptedLog[i].timestamp < AcceptedLog[j].timestamp)
    /\ [][(InDrain /\ ~InDrain') =>
            /\ sensor_queue = <<>> /\ sensor_queue' = <<>>
            /\ sensor_data = FilterAll(consumed)
            /\ sensor_data' = sensor_data]_vars

\* C14 witness: two different samples were consumed in enqueue order, the
\* drain has returned with the reader gone, and the slot holds their filtered
\* result
C14_Witness ==
    /\ ~InDrain
    /\ s_pc = "done"
    /\ Len(consumed) = 2
    /\ consumed[1].yaw # consumed[2].yaw
    /\ sensor_queue = <<>>
    /\ sensor_data = FilterAll(consumed)
    /\ sensor_data.yaw # consumed[2].yaw
    /\ sensor_data.yaw # consumed[1].yaw

\* the frame in hand was rendered with maps the fallback computed in this cycle
FallbackRan == r_out # <<>> /\ ~r_out[1].hit /\ r_out[1].maps.by = "fallback"

\* C15: whenever the render thread is about to compute maps, the computation
\* in which the accelerated kernel raises and the fallback returns does not
\* raise out of compute_distortion_maps: it yields the fallback's maps for
\* the orientation used, stores them as the cache with that orientation, and
\* the render thread goes on to push the frame rendered with them.
C15_FallbackRecovers ==
    /\ [](r_pc = "render" =>
            LET cur == Calibrated(r_snap[1])
                res == ComputeDistortionMaps(map_cache, last_orientation, cur, "fallback")
            IN  /\ ~res.raised
                /\ ~res.hit => /\ res.maps = << [orient |-> cur, by |-> "fallback"] >>
                               /\ res.map_cache = res.maps
                               /\ res.last_orientation = <<cur>>
                /\ ENABLED (RenderFrame({"fallback"}) /\ r_pc' = "put"))
    /\ [][(r_pc = "render" /\ r_pc' # "render" /\ FallbackRan') =>
            /\ r_pc' = "put"
            /\ map_cache' = <<r_out'[1].maps>>
            /\ last_orientation' = <<Calibrated(r_snap[1])>>
            /\ r_out'[1].frame = r_frame[1]]_vars
    /\ [][(FallbackRan /\ HoldsFrame /\ ~HoldsFrame') =>
            /\ r_pc' = "loop"
            /\ render_buffer' = Append(render_buffer, r_frame[1])]_vars

\* C15 witness: a later frame is about to be pushed, rendered with maps the
\* fallback computed for a fused orientation and stored as the cache
C15_Witness ==
    /\ r_pc = "put"
    /\ FallbackRan
    /\ map_cache = <<r_out[1].maps>>
    /\ last_orientation = <<Calibrated(r_snap[1])>>
    /\ r_snap[1] # ZeroOrientation
    /\ render_buffer # <<>>

\* Map computation alone: both implementations are run once on the same
\* parameters, for any orientation made of quarter turns and any of several
\* half interpupillary distances (in half pixels).
Angles == {0, 90, 180, 270}
HalfIpds == {0, 1, 3}

MapsCall ==
    /\ projection = <<>>
    /\ \E yaw \in Angles, pitch \in Angles, roll \in Angles, half_ipd \in HalfIpds :
         LET self == PrecomputeVRParameters(GridWidth, GridHeight, half_ipd)
         IN  projection' = << [self |-> self, yaw |-> yaw, pitch |-> pitch, roll |-> roll,
                               jit |-> AcceleratedMaps(self, yaw, pitch, roll),
                               fallback |-> ComputeVRDistortionFallback(self, yaw, pitch,
                                                                        roll)] >>
    /\ UNCHANGED <<map_cache, last_orientation, vr_calls, app_vars, cap_vars, reader_vars,
                   fusion_vars, render_vars>>

SpecMaps == Init /\ [][MapsCall]_vars

\* the pixels of the target image: row and column, from 1
Pixels == (1..GridHeight) \X (1..GridWidth)
MapNames == {"left_map_x", "left_map_y", "right_map_x", "right_map_y"}

\* C16: for every orientation and every destination pixel the accelerated
\* implementation and the fallback give the same four maps, of the same
\* shape: the same pixels invalid and the same coordinates elsewhere.
C16_FallbackEquivalent ==
    projection # <<>> =>
        LET p == projection[1]
        IN  /\ DOMAIN p.jit = MapNames /\ DOMAIN p.fallback = MapNames
            /\ \A m \in MapNames :
                 /\ DOMAIN p.jit[m] = 1..GridHeight
                 /\ DOMAIN p.fallback[m] = 1..GridHeight
                 /\ \A px \in Pixels :
                      /\ p.jit[m][px[1]][px[2]] = p.fallback[m][px[1]][px[2]]
                      /\ (p.jit[m][px[1]][px[2]] = Sentinel)
                           <=> (p.fallback[m][px[1]][px[2]] = Sentinel)

\* C16 witness: a rotation about all three axes with the eyes apart, where
\* some pixels are invalid and others are not, and the two eyes differ
C16_Witness ==
    /\ projection # <<>>
    /\ projection[1].yaw # 0 /\ projection[1].pitch # 0 /\ projection[1].roll # 0
    /\ projection[1].self.half_ipd = 3
    /\ projection[1].jit = projection[1].fallback
    /\ \E px \in Pixels : projection[1].jit.left_map_x[px[1]][px[2]] = Sentinel
    /\ \E px \in Pixels : projection[1].jit.left_map_x[px[1]][px[2]] # Sentinel
    /\ projection[1].jit.left_map_x # projection[1].jit.right_map_x

\* the 3-D point of the pixel in row r, column c (from 1) as seen by `eye`,
\* rotated by the orientation of the computation `p`, in half pixels
RotatedPoint(p, eye, r, c) ==
    LET m == CreateRotationMatrix(p.yaw, p.pitch, p.roll)
        x == IF eye = "left" THEN (2 * (c - 1) - GridWidth) - p.self.half_ipd
                             ELSE (2 * (c - 1) - GridWidth) + p.self.half_ipd
        y == 2 * (r - 1) - GridHeight
        z == p.self.focal_length
    IN  [k \in 1..3 |-> m[k][1] * x + m[k][2] * y + m[k][3] * z]

\* the fraction `coord` of half pixels equals rotated / rotated_z *
\* focal_length + size / 2 pixels
IsProjection(coord, rotated, rotated_z, focal_length, size) ==
    /\ coord.d > 0
    /\ coord.n * rotated_z = (rotated * focal_length + size * rotated_z) * coord.d

\* C17: in the maps of the accelerated implementation, for each eye and each
\* pixel: where the rotated z is not positive both coordinates are -1; where
\* it is positive they are rotated_x / rotated_z * focal_length +
\* target_width / 2 and rotated_y / rotated_z * focal_length +
\* target_height / 2.
C17_SentinelOrProjection ==
    projection # <<>> =>
        LET p == projection[1]
        IN  \A eye \in {"left", "right"}, px \in Pixels :
              LET rot == RotatedPoint(p, eye, px[1], px[2])
                  map_x == IF eye = "left" THEN p.jit.left_map_x ELSE p.jit.right_map_x
                  map_y == IF eye = "left" THEN p.jit.left_map_y ELSE p.jit.right_map_y
                  cx == map_x[px[1]][px[2]]
                  cy == map_y[px[1]][px[2]]
              IN  IF rot[3] <= 0
                  THEN cx = [n |-> 0 - 2, d |-> 1] /\ cy = [n |-> 0 - 2, d |-> 1]
                  ELSE /\ IsProjection(cx, rot[1], rot[3], p.self.focal_length, GridWidth)
                       /\ IsProjection(cy, rot[2], rot[3], p.self.focal_length, GridHeight)

\* C17 witness: a computation with the eyes apart in which some pixel of the
\* right eye is behind the eye, another is projected to a fractional
\* coordinate, and a pixel is valid for one eye and invalid for the other
C17_Witness ==
    /\ projection # <<>>
    /\ projection[1].self.half_ipd > 0
    /\ \E px \in Pixels : RotatedPoint(projection[1], "right", px[1], px[2])[3] < 0
    /\ \E px \in Pixels : projection[1].jit.right_map_x[px[1]][px[2]].d > 1
    /\ \E px \in Pixels :
         /\ RotatedPoint(projection[1], "left", px[1], px[2])[3] > 0
         /\ RotatedPoint(projection[1], "right", px[1], px[2])[3] <= 0

\* C18: for yaw = pitch = roll = 0 and no interpupillary distance the left and
\* right maps are the same, every pixel (x, y) maps to (x, y), and no pixel is
\* marked invalid.
C18_IdentityAtRest ==
    (/\ projection # <<>>
     /\ projection[1].yaw = 0 /\ projection[1].pitch = 0 /\ projection[1].roll = 0
     /\ projection[1].self.half_ipd = 0)
    => LET maps == projection[1].jit
       IN  /\ maps.left_map_x = maps.right_map_x
           /\ maps.left_map_y = maps.right_map_y
           /\ \A px \in Pixels :
                /\ maps.left_map_x[px[1]][px[2]] = [n |-> 2 * (px[2] - 1), d |-> 1]
                /\ maps.left_map_y[px[1]][px[2]] = [n |-> 2 * (px[1] - 1), d |-> 1]
                /\ maps.left_map_x[px[1]][px[2]] # Sentinel
                /\ maps.left_map_y[px[1]][px[2]] # Sentinel

\* C18 witness: the computation at rest with no interpupillary distance; the
\* pixel at (GridWidth / 2, GridHeight / 2) maps to itself
C18_Witness ==
    /\ projection # <<>>
    /\ projection[1].yaw = 0 /\ projection[1].pitch = 0 /\ projection[1].roll = 0
    /\ projection[1].self.half_ipd = 0
    /\ projection[1].jit.right_map_x[GridHeight \div 2 + 1][GridWidth \div 2 + 1]
         = [n |-> GridWidth, d |-> 1]
    /\ projection[1].jit.right_map_y[GridHeight \div 2 + 1][GridWidth \div 2 + 1]
         = [n |-> GridHeight, d |-> 1]

C21_RemovesOnlyWhenFull ==
    [][(c_pc = "get" /\ c_pc' # "get") =>
          /\ Len(frame_buffer') >= Len(frame_buffer) - 1
          /\ frame_buffer' # frame_buffer => Len(frame_buffer) >= FRAME_BUFFER_SIZE]_vars

\* every frame in the pipeline, from the canvas back to the capture thread's hand
Pipeline ==
    canvas_image \o render_buffer \o r_frame \o frame_buffer
        \o (IF c_pc \in {"put", "get", "put2"} THEN <<c_frame>> ELSE <<>>)

\* C22: the frames in the pipeline are always in strictly increasing capture
\* order, from the one on the canvas back to the one being captured, and each
\* frame presented is a captured frame later than the one presented before it.
C22_FramesInCaptureOrder ==
    /\ [](\A i, j \in 1..Len(Pipeline) : i < j => Pipeline[i] < Pipeline[j])
    /\ [](\A i \in 1..Len(Pipeline) : Pipeline[i] \in 1..captured)
    /\ [][canvas_image' # canvas_image =>
            /\ render_buffer # <<>>
            /\ canvas_image' = <<Head(render_buffer)>>
            /\ canvas_image # <<>> => canvas_image'[1] > canvas_image[1]]_vars

\* C22 witness: frame 1 is on the canvas, frame 2 was dropped by the capture
\* loop, and the display is about to take frame 3 from the output channel
C22_Witness ==
    /\ canvas_image = <<1>>
    /\ render_buffer = <<3>>
    /\ captured = 3
    /\ frame_buffer = <<>> /\ r_frame = <<>>
    /\ c_pc = "loop"
    /\ cb = "d_get"

\* C23: the render thread's put never finds the output channel full, its
\* drop-oldest branch is never entered, and the output channel changes only by
\* the render thread appending a rendered frame or the display taking the
\* oldest one onto the canvas.
C23_NoRenderedFrameDropped ==
    /\ [](r_pc = "put" => Len(render_buffer) < FRAME_BUFFER_SIZE)
    /\ [](r_pc \notin {"rget", "rput2", "crashed"})
    /\ [][render_buffer' # render_buffer =>
            \/ /\ r_pc = "put"
               /\ render_buffer' = Append(render_buffer, r_out[1].frame)
            \/ /\ cb = "d_get"
               /\ render_buffer' = Tail(render_buffer)
               /\ canvas_image' = <<Head(render_buffer)>>]_vars

\* C23 witness: the render thread is about to push into an output channel
\* with one free place while the display is about to take the oldest frame
C23_Witness ==
    /\ r_pc = "put"
    /\ Len(render_buffer) = FRAME_BUFFER_SIZE - 1
    /\ cb = "d_get"
    /\ canvas_image # <<>>

\* C24: the cache holds at most one map; a map is cached exactly when an
\* orientation is recorded, and the recorded orientation is the one the map
\* was computed from; a call that computes replaces both by the new map and
\* its orientation, and a cache hit or a call that raises changes neither.
C24_CacheCoherent ==
    /\ [](/\ Len(map_cache) <= 1
          /\ Len(last_orientation) = Len(map_cache)
          /\ map_cache # <<>> => last_orientation = <<map_cache[1].orient>>)
    /\ [][vr_calls' # vr_calls =>
            LET call == vr_calls'[Len(vr_calls')]
            IN  IF call.hit \/ call.raised
                THEN map_cache' = map_cache /\ last_orientation' = last_orientation
                ELSE /\ map_cache' = call.maps
                     /\ map_cache'[1].orient = call.orient
                     /\ last_orientation' = <<call.orient>>]_vars

\* C24 witness: after a computation, a cache hit at another orientation and a
\* call that raised, the cache still holds the first call's map and orientation
C24_Witness ==
    /\ Len(vr_calls) = 2
    /\ vr_calls[1].hit /\ vr_calls[2].raised
    /\ map_cache # <<>>
    /\ vr_calls[1].orient # map_cache[1].orient
    /\ vr_calls[2].orient # map_cache[1].orient
    /\ last_orientation = <<map_cache[1].orient>>
====
